---- MODULE Spec2Model ----
(***************************************************************************)
(* A model of the semantic-kernel chatbot sample: the bounded conversation *)
(* history (ConversationData.add_turn), the attachment harvester           *)
(* (extract_attachments), the agent's tool registry (AbstractAgent), the   *)
(* instrumented tool adapter and the process() call of                     *)
(* AbstractChatCompletionAgent, and the bot's message handler.             *)
(*                                                                         *)
(* Each component has its own specification over the shared variables:     *)
(*   SpecHistory  - add_turn on one ConversationData                       *)
(*   SpecHarvest  - extract_attachments on bounded tool results            *)
(*   SpecTools    - the constructor's tools dict and add_tool              *)
(*   SpecRender   - get_activity_card on the Turn built from a tool result *)
(*   SpecAdapter  - adapters invoked outside a process() call              *)
(*   Spec         - concurrent message handling: bot, process(), adapters  *)
(* The variables a specification does not use keep their idle value.       *)
(***************************************************************************)
EXTENDS Integers, Sequences, FiniteSets, TLC

VARIABLES
    \* ---- ConversationData (SpecHistory)
    max_turns,      \* ConversationData.max_turns
    history,        \* ConversationData.history
    added,          \* ghost: every turn passed to add_turn so far, in order
    chat,           \* the ChatHistory process() last built, and the history it read
    \* ---- extract_attachments (SpecHarvest)
    h_result,       \* the tool result handed to extract_attachments
    h_attachments,  \* what extract_attachments returned for it
    h_pc,           \* "input" before the call, "done" after it
    \* ---- AbstractAgent's tool registry (SpecTools, Spec)
    tools,          \* AbstractAgent._tools: the dict's entries in insertion order
    plugin,         \* the adapters _add_plugin registered with the kernel
    add_arg,        \* the tool passed to the last add_tool call
    add_error,      \* what the last add_tool call raised (NoError if nothing)
    n_add,          \* ghost: add_tool calls so far
    \* ---- message handling (Spec), per flow (asyncio task) f
    ctxvar,         \* agent_invoke_context: its value in each flow's context
    token,          \* process(): the token's old value of agent_invoke_context
    pc,             \* "idle", or "completing" while get_response is awaited
    inflight,       \* adapter invocations suspended in "await tool.function"
    conv,           \* the flow's ConversationData.history
    request,        \* the ChatHistory process() handed to get_response
    outcome,        \* how the last process() call ended: a Turn or an exception
    sent,           \* the activities sent to the user for the last message
    last_call,      \* ghost: the last adapter invocation that ended, and how
    conv_before,    \* ghost: conv when the last message arrived
    cause,          \* ghost: the exception get_response raised in the last call
    msgno,          \* ghost: messages the flow has received
    ncalls,         \* ghost: adapter invocations started in the current call
    started,        \* ghost: adapter invocations started so far, over all flows
    ndirect,        \* ghost: adapter invocations made outside process(), over all flows
    \* ---- get_activity_card (SpecRender)
    r_result,       \* the tool result the turn's attachments are harvested from
    r_turn,         \* the Turn handed to get_activity_card
    r_docs,         \* one entry per get_activity_card call: turn before, outcome, turn after
    r_pc            \* "input" before the Turn is built, "turn" after it

histVars == <<max_turns, history, added, chat>>
harvVars == <<h_result, h_attachments, h_pc>>
toolVars == <<tools, plugin, add_arg, add_error, n_add>>
botVars == <<ctxvar, token, pc, inflight, conv, request, outcome, sent, last_call,
             conv_before, cause, msgno, ncalls, started, ndirect>>
rendVars == <<r_result, r_turn, r_docs, r_pc>>
vars == <<histVars, harvVars, toolVars, botVars, rendVars>>

(***************************************************************************)
(* Bounds of the model.                                                    *)
(***************************************************************************)
MaxMaxTurns == 4    \* max_turns ranges over 1..MaxMaxTurns
MaxAdds == 6        \* add_turn calls on one ConversationData
MaxLen == 2         \* items of an inner container of a tool result
MaxAddTool == 3     \* add_tool calls on one agent
MaxMsgs == 2        \* messages received, over all flows
MaxCalls == 3       \* adapter invocations, over all flows and messages
MaxDirect == 3      \* adapter invocations made outside process(), over all flows
MaxAtts == 3        \* attachments of the tool result a rendered Turn is built from
MaxRenders == 2     \* get_activity_card calls on one Turn

None == [t |-> "None"]

(***************************************************************************)
(* ConversationTurn and ConversationData.                                  *)
(***************************************************************************)
Roles == {"user", "assistant", "system"}

\* A ConversationTurn; created_at is a logical clock value.
ConversationTurn(role, content, created_at, metadata, attachments) ==
    [role |-> role, content |-> content, created_at |-> created_at,
     metadata |-> metadata, attachments |-> attachments]

\* add_turn without the eviction: the history grows without bound.
add_turn_no_evict(h, max, turn) == Append(h, turn)

\* add_turn evicting the newest turn instead of the oldest.
add_turn_pop_last(h, max, turn) ==
    LET appended == Append(h, turn)
    IN  IF Len(appended) >= max THEN SubSeq(appended, 1, Len(appended) - 1)
        ELSE appended

\* add_turn evicting only once the length exceeds max_turns.
add_turn_when_exceeded(h, max, turn) ==
    LET appended == Append(h, turn)
    IN  IF Len(appended) > max THEN Tail(appended) ELSE appended

\* ConversationData.add_turn: append, then pop(0) when len >= max_turns.
add_turn(h, max, turn) ==
    LET appended == Append(h, turn)
    IN  IF Len(appended) >= max THEN Tail(appended) ELSE appended

\* The k-th turn handed to add_turn in SpecHistory: T1, T2, ...
T(k, role) == ConversationTurn(role, "T", k, <<>>, <<>>)

NoChat == [built |-> FALSE, from |-> <<>>, messages |-> <<>>]

HistInit ==
    /\ max_turns \in 1..MaxMaxTurns
    /\ history = <<>>
    /\ added = <<>>
    /\ chat = NoChat

HistIdle ==
    /\ max_turns = 1
    /\ history = <<>>
    /\ added = <<>>
    /\ chat = NoChat

\* One call conversation_data.add_turn(turn).
AddTurn ==
    /\ Len(added) < MaxAdds
    /\ \E role \in Roles :
        LET turn == T(Len(added) + 1, role)
        IN  /\ history' = add_turn(history, max_turns, turn)
            /\ added' = Append(added, turn)
    /\ UNCHANGED <<max_turns, chat, harvVars, toolVars, botVars, rendVars>>

(***************************************************************************)
(* Attachments (data_models/attachments.py) and tool results.  A value is  *)
(* a record tagged by its Python type in field t.                          *)
(***************************************************************************)
Citation(title, url, content, metadata) ==
    [t |-> "Citation", title |-> title, url |-> url, content |-> content,
     metadata |-> metadata]

Media(content, mime_type, label) ==
    [t |-> "Media", content |-> content, mime_type |-> mime_type, label |-> label]

VerticalBarChart(id, title, data) ==
    [t |-> "VerticalBarChart", id |-> id, title |-> title, data |-> data]

LineChart(id, title, data) ==
    [t |-> "LineChart", id |-> id, title |-> title, data |-> data]

PieChart(id, title, data) ==
    [t |-> "PieChart", id |-> id, title |-> title, data |-> data]

\* The classes for which isinstance(value, Chart) holds: Chart and its subclasses.
ChartTypes == {"Chart", "VerticalBarChart", "LineChart", "PieChart"}

Scalar(v) == [t |-> "scalar", v |-> v]
Str(s) == [t |-> "str", s |-> s]
List(items) == [t |-> "list", items |-> items]
Tuple(items) == [t |-> "tuple", items |-> items]
\* A set, given by the order in which iterating it yields its elements.
Set(items) == [t |-> "set", items |-> items]
\* A dict, given by its (key, value) entries in insertion order.
Dict(entries) == [t |-> "dict", items |-> entries]

\* isinstance(value, Citation) or isinstance(value, Media) or isinstance(value, Chart)
IsAttachment(value) == value.t \in {"Citation", "Media"} \cup ChartTypes

\* Iterating a dict itself: its keys, in insertion order.
DictKeys(value) == [i \in DOMAIN value.items |-> value.items[i].key]

\* value.values() of a dict, in insertion order.
DictValues(value) == [i \in DOMAIN value.items |-> value.items[i].value]

RECURSIVE collect(_)
RECURSIVE collect_items(_)

\* The loops "for item in ...: _collect(item)": the items' harvests in order.
collect_items(items) ==
    IF items = <<>> THEN <<>>
    ELSE collect(Head(items)) \o collect_items(Tail(items))

\* _collect(value), as the list of the values it appends to attachments.
collect(value) ==
    IF IsAttachment(value) THEN <<value>>
    ELSE IF value.t \in {"list", "tuple", "set"} THEN collect_items(value.items)
    ELSE IF value.t = "dict" THEN collect_items(DictValues(value))
    ELSE <<>>

RECURSIVE dedup(_)
\* A sequence without its repeated elements (first occurrences kept).
dedup(s) ==
    IF s = <<>> THEN <<>>
    ELSE LET d == dedup(SubSeq(s, 1, Len(s) - 1))
         IN  IF \E i \in DOMAIN d : d[i] = s[Len(s)] THEN d ELSE Append(d, s[Len(s)])

\* extract_attachments that drops repeated attachments.
extract_attachments_dedup(result) == dedup(collect(result))

\* extract_attachments(result)
extract_attachments(result) == collect(result)

(***************************************************************************)
(* The tool results SpecHarvest draws from: leaves, containers of leaves,  *)
(* and containers of those.                                                *)
(***************************************************************************)
Cit1 == Citation("Harry Potter", "https://harrypotter.fandom.com/wiki/Harry_Potter", "",
                 Dict(<<[key |-> Str("house"), value |-> Str("Gryffindor")]>>))
Media1 == Media("https://www.youtube.com/watch?v=YsqcODOEO-M", "video/mp4",
                Str("Harry Potter Trailer"))
VBar1 == VerticalBarChart("c1", "Sales", <<>>)

Leaves == {Scalar(5), Cit1, Media1, VBar1}
InnerLeaves == {Scalar(5), Cit1, VBar1}
\* Pydantic models are not hashable, so a set holds no attachment.
Hashables == {Scalar(5), Str("x")}

SeqsUpTo(S, n) == UNION {[1..k -> S] : k \in 0..n}
SeqsUpTo2(S) == {<<>>} \cup {<<a>> : a \in S} \cup {<<a, b>> : a, b \in S}
Distinct(s) == \A i, j \in DOMAIN s : i # j => s[i] # s[j]
Entries(s) == [i \in DOMAIN s |-> [key |-> Scalar(i), value |-> s[i]]]

ContainersOf(seqs) ==
    {List(s) : s \in seqs} \cup {Tuple(s) : s \in seqs} \cup {Dict(Entries(s)) : s \in seqs}
OuterContainersOf(seqs) == {List(s) : s \in seqs} \cup {Dict(Entries(s)) : s \in seqs}
SetsOf(seqs) == {Set(s) : s \in {x \in seqs : Distinct(x)}}

InnerValues ==
    Leaves \cup ContainersOf(SeqsUpTo(InnerLeaves, MaxLen))
    \cup SetsOf(SeqsUpTo(Hashables, MaxLen))
ToolResults ==
    Leaves \cup OuterContainersOf(SeqsUpTo2(InnerValues)) \cup SetsOf(SeqsUpTo2(Hashables))

HarvInit ==
    /\ h_result \in ToolResults
    /\ h_attachments = <<>>
    /\ h_pc = "input"

HarvIdle ==
    /\ h_result = None
    /\ h_attachments = <<>>
    /\ h_pc = "idle"

\* One call extract_attachments(h_result).
Harvest ==
    /\ h_pc = "input"
    /\ h_attachments' = extract_attachments(h_result)
    /\ h_pc' = "done"
    /\ UNCHANGED <<h_result, histVars, toolVars, botVars, rendVars>>

(***************************************************************************)
(* Tools (tools/__init__.py) and the agent's registry (abstract_agent.py). *)
(* A dict is the sequence of its entries [key, value] in insertion order.  *)
(***************************************************************************)
\* AbstractTool(name, description, function); function names the callable.
AbstractTool(name, description, function) ==
    [name |-> name, description |-> description, function |-> function]

AddTool == AbstractTool("Add", "Add two numbers, such as 6+3", "add")
SubtractTool == AbstractTool("Subtract", "Subtract two numbers, such as 6-3", "subtract")
DivideTool == AbstractTool("Divide", "Divide two numbers, such as 6/3", "divide")
VerticalBarChartTool ==
    AbstractTool("VerticalBarChart", "Generate a vertical bar chart.", "create_vertical_bar_chart")
\* A tool registered by a caller: its callable is a coroutine function that
\* returns {"chart": VerticalBarChart}.
FetchChartTool == AbstractTool("FetchChart", "Fetch the sales chart.", "fetch_chart")
\* Another tool that calls itself Add.
OtherAddTool == AbstractTool("Add", "Concatenate two strings", "concat")

HasKey(d, k) == \E i \in DOMAIN d : d[i].key = k
Lookup(d, k) == d[CHOOSE i \in DOMAIN d : d[i].key = k].value

\* The tools dicts an agent is constructed with.
ConstructorTools ==
    { <<>>,
      <<[key |-> "Add", value |-> AddTool], [key |-> "Divide", value |-> DivideTool]>>,
      <<[key |-> "Add", value |-> AddTool],
        [key |-> "CreateVerticalBarChart", value |-> VerticalBarChartTool]>> }

\* The tools callers pass to add_tool.
AddableTools == {AddTool, OtherAddTool, SubtractTool, DivideTool, VerticalBarChartTool,
                 FetchChartTool}

NoError == [t |-> "NoError"]
ValueError(msg) == [t |-> "ValueError", msg |-> msg]

\* How a call ends: it returns a value or raises an exception.
Returns(v) == [ok |-> TRUE, value |-> v]
Raises(e) == [ok |-> FALSE, error |-> e]

\* A parameter of a signature; the annotation "empty" is inspect's for none.
Param(name, annotation) == [name |-> name, annotation |-> annotation]

\* inspect.signature of a tool's callable: the math tools are lambdas of x
\* and y, the chart tool and the coroutine tool are annotated functions.
Signature(function) ==
    IF function \in {"add", "subtract", "multiply", "divide"}
    THEN [params |-> <<Param("x", "empty"), Param("y", "empty")>>, returns |-> "empty"]
    ELSE IF function = "create_vertical_bar_chart"
    THEN [params |-> <<Param("title", "str"),
                       Param("data", "list[VerticalBarChartDataValue]")>>,
          returns |-> "VerticalBarChart"]
    ELSE IF function = "fetch_chart"
    THEN [params |-> <<Param("topic", "str")>>, returns |-> "dict"]
    ELSE [params |-> <<Param("x", "str"), Param("y", "str")>>, returns |-> "str"]

\* new_plugin_func as it is declared: (*args: Any, **kwargs: Any) -> Any.
DeclaredSignature ==
    [params |-> <<Param("*args", "Any"), Param("**kwargs", "Any")>>, returns |-> "Any"]

\* kernel_function(func, name, description): the decorator marks the
\* function with the name and the description and returns it.
kernel_function(function, name, description) ==
    [function |-> function, name |-> name, description |-> description]

\* inspect.signature(plugin_func) of a function kernel_function returned.
inspect_signature(plugin_func) == Signature(plugin_func.function)

\* _build_func without the assignment to __signature__.
build_func_signature_declared(tool) == DeclaredSignature

\* _build_func(tool): the __signature__ it gives new_plugin_func.
build_func_signature(tool) ==
    inspect_signature(kernel_function(tool.function, tool.name, tool.description))

\* _add_plugin(tools): one adapter per value of the dict, in order, each
\* built by _build_func(tool) and registered under tool.name.
add_plugin(d) ==
    [i \in DOMAIN d |-> [name |-> d[i].value.name, tool |-> d[i].value,
                         signature |-> build_func_signature(d[i].value)]]

\* add_tool that replaces the tool stored under an existing name.
add_tool_overwrite(d, tool) ==
    IF ~HasKey(d, tool.name)
    THEN [tools |-> Append(d, [key |-> tool.name, value |-> tool]), raised |-> NoError]
    ELSE [tools |-> [i \in DOMAIN d |->
                        IF d[i].key = tool.name THEN [key |-> tool.name, value |-> tool]
                        ELSE d[i]],
          raised |-> NoError]

\* AbstractAgent.add_tool(tool): the dict afterwards and what was raised.
add_tool(d, tool) ==
    IF ~HasKey(d, tool.name)
    THEN [tools |-> Append(d, [key |-> tool.name, value |-> tool]), raised |-> NoError]
    ELSE [tools |-> d, raised |-> ValueError("Tool already exists")]

\* AbstractChatCompletionAgent.__init__: the tools dict is kept and, when it
\* is not empty, _add_plugin registers its adapters.
ToolInit ==
    /\ tools \in ConstructorTools
    /\ plugin = add_plugin(tools)
    /\ add_arg = AddTool
    /\ add_error = NoError
    /\ n_add = 0

\* One call agent.add_tool(tool).
AddToolCall ==
    /\ n_add < MaxAddTool
    /\ \E tool \in AddableTools :
        /\ tools' = add_tool(tools, tool).tools
        /\ add_error' = add_tool(tools, tool).raised
        /\ add_arg' = tool
    /\ n_add' = n_add + 1
    /\ UNCHANGED <<plugin, histVars, harvVars, botVars, rendVars>>

(***************************************************************************)
(* The renderer (utils.py).  A formatted string is the sequence of its     *)
(* pieces; json.dumps(x) is the piece <<"json", x>>.                       *)
(***************************************************************************)
json_dumps(x) == <<"json", x>>

\* get_citations_element(citation)
get_citations_element(citation) ==
    [type |-> "Container",
     items |-> <<[type |-> "TextBlock",
                  text |-> <<"[", citation.title, "](", citation.url, ")">>,
                  wrap |-> TRUE, size |-> "Medium"],
                 [type |-> "CodeBlock",
                  codeSnippet |-> IF citation.metadata.items # <<>>
                                  THEN json_dumps(citation.metadata) ELSE <<>>,
                  language |-> "Json"]>>]

\* get_media_element(media)
get_media_element(media) ==
    [type |-> "Media",
     sources |-> <<[mimeType |-> media.mime_type, url |-> media.content,
                    label |-> IF media.label \in {None, Str("")}
                              THEN Str("Media Attachment") ELSE media.label]>>]

\* The type discriminator get_chart_card derives from the chart's class.
chart_type(chart) ==
    IF chart.t = "VerticalBarChart" THEN "Chart.VerticalBar"
    ELSE IF chart.t = "LineChart" THEN "Chart.Line"
    ELSE IF chart.t = "PieChart" THEN "Chart.Pie"
    ELSE ""

\* data.model_dump(mode="json"): the dict of the data value's fields.
model_dump(data) == [t |-> "dict", fields |-> data.fields]

\* get_chart_card without its "if not type" test: a chart of an unknown
\* class gets an element with an empty type and no data.
get_chart_card_unchecked(chart) ==
    Returns([id |-> chart.id, type |-> chart_type(chart), title |-> chart.title,
             data |-> IF chart_type(chart) = "" THEN <<>>
                      ELSE [i \in DOMAIN chart.data |-> model_dump(chart.data[i])]])

\* get_chart_card(chart): the element, or ValueError for an unsupported class.
get_chart_card(chart) ==
    IF chart_type(chart) = ""
    THEN Raises(ValueError("Unsupported chart type"))
    ELSE Returns([id |-> chart.id, type |-> chart_type(chart), title |-> chart.title,
                  data |-> [i \in DOMAIN chart.data |-> model_dump(chart.data[i])]])

\* get_expandable_block(id, title, elements): the collapsed section.
get_expandable_block(id, title, elements) ==
    [type |-> "Container",
     title |-> title,
     targetElements |-> <<<<"cardContent", id>>, <<"chevronUp", id>>, <<"chevronDown", id>>>>,
     content |-> [type |-> "Container", id |-> <<"cardContent", id>>,
                  items |-> elements, isVisible |-> FALSE],
     separator |-> TRUE, spacing |-> "Small"]

IsCitation(a) == a.t = "Citation"
IsMedia(a) == a.t = "Media"
IsChart(a) == a.t \in ChartTypes

\* A bucket that takes each new element at its front.
bucket_prepend(bucket, element) == <<element>> \o bucket

\* citations.append(...), media.append(...), charts.append(...)
bucket_append(bucket, element) == Append(bucket, element)

\* The three lists get_activity_card starts with; raised is what the loop
\* raised, if anything.
NoBuckets == [citations |-> <<>>, media |-> <<>>, charts |-> <<>>, raised |-> NoError]

\* One iteration of "for attachment in turn.attachments".
place(buckets, attachment) ==
    IF IsCitation(attachment)
    THEN [buckets EXCEPT !.citations = bucket_append(@, get_citations_element(attachment))]
    ELSE IF IsMedia(attachment)
    THEN [buckets EXCEPT !.media = bucket_append(@, get_media_element(attachment))]
    ELSE IF IsChart(attachment)
    THEN IF get_chart_card(attachment).ok
         THEN [buckets EXCEPT !.charts = bucket_append(@, get_chart_card(attachment).value)]
         ELSE [buckets EXCEPT !.raised = get_chart_card(attachment).error]
    ELSE buckets

RECURSIVE place_all(_, _)
\* The loop over turn.attachments; it ends where an iteration raises.
place_all(buckets, attachments) ==
    IF attachments = <<>> \/ buckets.raised # NoError THEN buckets
    ELSE place_all(place(buckets, Head(attachments)), Tail(attachments))

\* A body with a section for every bucket, empty or not.
attachments_body_all(citations, media, charts) ==
    <<get_expandable_block("Citations", "Citations", citations),
      get_expandable_block("Media", "Media Attachments", media),
      get_expandable_block("Charts", "Charts", charts)>>

\* attachments_body: one expandable block per non-empty bucket.
attachments_body(citations, media, charts) ==
    (IF citations # <<>>
     THEN <<get_expandable_block("Citations", "Citations", citations)>> ELSE <<>>)
    \o (IF media # <<>>
        THEN <<get_expandable_block("Media", "Media Attachments", media)>> ELSE <<>>)
    \o (IF charts # <<>>
        THEN <<get_expandable_block("Charts", "Charts", charts)>> ELSE <<>>)

\* get_activity_card(turn): the Activity, or the ValueError of get_chart_card.
\* An Activity without attachments (None) has attachments <<>>.
get_activity_card(turn) ==
    LET buckets == place_all(NoBuckets, turn.attachments)
        citations == buckets.citations
        media == buckets.media
        charts == buckets.charts
        attachments_card ==
            [type |-> "AdaptiveCard", body |-> attachments_body(citations, media, charts)]
    IN  IF buckets.raised # NoError
        THEN Raises(buckets.raised)
        ELSE Returns([type |-> "message", text |-> turn.content,
                      attachments |-> IF citations # <<>> \/ media # <<>> \/ charts # <<>>
                                      THEN <<attachments_card>> ELSE <<>>])

(***************************************************************************)
(* The instrumented adapter and process() (chat_completion_agent.py), and  *)
(* the bot's message handler (semantic_kernel_bot.py, app.py).             *)
(*                                                                         *)
(* A flow is an asyncio task: it handles one message at a time, and its    *)
(* context holds its own value of the ContextVar agent_invoke_context.     *)
(* The completion black-box (get_response) is the environment: while a     *)
(* flow awaits it, it invokes adapters of the plugin, and then returns a   *)
(* reply or raises; a failure of a tool it invoked ends it with that       *)
(* failure.                                                                *)
(***************************************************************************)
Flows == {"f1", "f2"}

\* ConversationData's default max_turns.
DefaultMaxTurns == 10

\* datetime.now(): one opaque reading of the clock.
Now == "now"
isoformat(time) == <<"iso", time>>

\* The elapsed time of a tool call, in microseconds: a synchronous tool of
\* the model returns within a second, a coroutine tool takes longer.
Elapsed(function) == IF function = "fetch_chart" THEN 1000250 ELSE 250

\* timedelta.microseconds: the microseconds component of the elapsed time.
microseconds(elapsed) == elapsed % 1000000

\* The exceptions of the model.
Exception(name) == [t |-> name]
LookupError == Exception("LookupError")
CompletionErrors == {Exception("ServiceResponseException"), Exception("AgentInvokeException")}

\* Every flow resolving one shared slot of the variable.
CtxKeyShared(f) == "f1"

\* The slot of agent_invoke_context a flow's code resolves: a ContextVar is
\* looked up in the context of the running task.
CtxKey(f) == f

\* The dict process() sets as the flow's Invocation Context.
NewContext == [t |-> "dict", tool_usage |-> <<>>, attachments |-> <<>>]

\* The tools of the agent of Spec.
AgentTools ==
    <<[key |-> "Add", value |-> AddTool], [key |-> "Divide", value |-> DivideTool],
      [key |-> "FetchChart", value |-> FetchChartTool]>>

\* inspect.iscoroutinefunction(tool.function)
iscoroutinefunction(function) == function = "fetch_chart"

\* What calling tool.function(**kwargs) can do: return a value or raise.
\* call names the invocation; it stands for the uuid4 a chart is created with.
ToolOutcomes(function, kwargs, call) ==
    IF function = "add" THEN {Returns(Scalar(kwargs.x + kwargs.y))}
    ELSE IF function = "subtract" THEN {Returns(Scalar(kwargs.x - kwargs.y))}
    ELSE IF function = "divide"
    THEN IF kwargs.y = 0 THEN {Raises(Exception("ZeroDivisionError"))}
         ELSE {Returns(Scalar(kwargs.x \div kwargs.y))}
    ELSE IF function = "fetch_chart"
    THEN {Returns(Dict(<<[key |-> Str("chart"),
                           value |-> VerticalBarChart(<<"uuid", call>>, "Sales", <<>>)]>>)),
          Raises(Exception("TimeoutError"))}
    ELSE {Raises(Exception("TypeError"))}

\* The calls the black-box makes: a plugin function with keyword arguments.
Invocations ==
    {[tool |-> "Add", args |-> <<>>, kwargs |-> [x |-> 2, y |-> 3]],
     [tool |-> "Divide", args |-> <<>>, kwargs |-> [x |-> 6, y |-> 0]],
     [tool |-> "FetchChart", args |-> <<>>, kwargs |-> [topic |-> "sales"]]}

UserTexts == {"hi"}
Replies == {"ok"}

\* The record an adapter appends; call and elapsed are ghost fields: the
\* invocation's name <<flow, message, ordinal>> and end_time - start_time in
\* microseconds.
ToolUsageRecord(tool, inv, resp, start_time, elapsed, call) ==
    [tool_name |-> tool.name, args |-> inv.args, kwargs |-> inv.kwargs, result |-> resp,
     start_time |-> isoformat(start_time), duration |-> microseconds(elapsed),
     call |-> call, elapsed |-> elapsed]

\* An adapter that records into the context but harvests nothing.
adapter_record_no_harvest(ctx, record, resp) ==
    [ctx EXCEPT !.tool_usage = Append(@, record)]

\* An adapter that stores its record as the whole log.
adapter_record_overwrite(ctx, record, resp) ==
    [ctx EXCEPT !.tool_usage = <<record>>,
                !.attachments = @ \o extract_attachments(resp)]

\* new_plugin_func after tool.function returned resp: the context afterwards.
adapter_record(ctx, record, resp) ==
    [ctx EXCEPT !.tool_usage = Append(@, record),
                !.attachments = @ \o extract_attachments(resp)]

\* An adapter that hands the black-box a summary instead of the tool's value.
adapter_return_summary(resp) == Str("done")

\* new_plugin_func's "return resp".
adapter_return(resp) == resp

\* An adapter that replaces the tool's failure by one of its own.
adapter_raise_wrapped(e) == [t |-> "ToolExecutionError", cause |-> e.t]

\* What new_plugin_func raises when tool.function raised e: it has no
\* handler, and the tracer's span re-raises what passes through it.
adapter_raise(e) == e

\* How often new_plugin_func calls tool.function: one call expression on
\* either branch of the iscoroutinefunction test, in no loop.
attempts(out) == 1

\* An adapter that logs a failed call as a record without a result.
context_after_failure_logged(ctx, record) ==
    IF ctx = None THEN ctx ELSE [ctx EXCEPT !.tool_usage = Append(@, record)]

\* The context after tool.function raised in new_plugin_func: the exception
\* leaves the function before the record would be built and appended.
context_after_failure(ctx, record) == ctx

\* A context variable declared with a default dict.
context_get_default(ctx) == Returns(IF ctx = None THEN NewContext ELSE ctx)

\* agent_invoke_context.get() in a task where the variable's value is ctx
\* (None: no value): the variable has no default, so get() raises LookupError.
context_get(ctx) == IF ctx = None THEN Raises(LookupError) ELSE Returns(ctx)

\* new_plugin_func(*args, **kwargs) from the point where tool.function ended
\* with out, with ctx the value of agent_invoke_context in the running
\* task: the context afterwards, what the adapter raised (NoError: it
\* returned) and the ghost record of the invocation.
new_plugin_func(ctx, tool, inv, call, out, elapsed) ==
    IF ~out.ok
    THEN [ctx |-> context_after_failure(ctx,
                      ToolUsageRecord(tool, inv, None, Now, elapsed, call)),
          raised |-> adapter_raise(out.error),
          call |-> [kind |-> "raised", tool |-> tool, inv |-> inv, call |-> call,
                    out |-> out, ctx_before |-> ctx, attempts |-> attempts(out),
                    raised |-> adapter_raise(out.error)]]
    ELSE IF ~context_get(ctx).ok
    THEN [ctx |-> ctx, raised |-> context_get(ctx).error,
          call |-> [kind |-> "raised", tool |-> tool, inv |-> inv, call |-> call,
                    out |-> out, ctx_before |-> ctx, attempts |-> attempts(out),
                    raised |-> context_get(ctx).error]]
    ELSE [ctx |-> adapter_record(context_get(ctx).value,
                      ToolUsageRecord(tool, inv, out.value, Now, elapsed, call),
                      out.value),
          raised |-> NoError,
          call |-> [kind |-> "returned", tool |-> tool, inv |-> inv, call |-> call,
                    out |-> out, ctx_before |-> ctx, attempts |-> attempts(out),
                    value |-> out.value, returned |-> adapter_return(out.value)]]

\* process() wrapping the failure of get_response.
process_raise_wrapped(e) == [t |-> "AgentProcessingError", cause |-> e]

\* What process() raises when get_response raised e: there is no handler.
process_raise(e) == e

\* process() reusing the dict that is active instead of setting a new one.
enter_context_reuse(old) == IF old = None THEN NewContext ELSE old

\* agent_invoke_context.set({...}): the value set, given the old one.
enter_context(old) == NewContext

\* process()'s loop over conversation_data.history building the ChatHistory.
to_chat_history(h) ==
    [i \in DOMAIN h |->
        [role |-> IF h[i].role = "user" THEN "user" ELSE "assistant",
         content |-> h[i].content]]

\* str(error): the text the exception was raised with.
str(error) ==
    IF error.t = "ValueError" THEN error.msg
    ELSE IF error.t = "ZeroDivisionError" THEN "division by zero"
    ELSE IF error.t = "LookupError" THEN "<ContextVar name='agent_invoke_context'>"
    ELSE IF error.t = "ServiceResponseException" THEN "service failed to complete the prompt"
    ELSE IF error.t = "AgentInvokeException" THEN "failed to invoke the agent"
    ELSE ""

\* app.py on_error: what the adapter sends when the handler raised.
on_error(error) ==
    <<"The bot encountered an error or bug.",
      "To continue to run this bot, please fix the bot source code.",
      str(error)>>

Pending == [kind |-> "pending"]
NoCall == [kind |-> "none"]

TotalMsgs == msgno["f1"] + msgno["f2"]
Adapters(name) == {i \in DOMAIN plugin : plugin[i].name = name}

BotInit ==
    /\ ctxvar = [k \in Flows |-> None]
    /\ token = [f \in Flows |-> None]
    /\ pc = [f \in Flows |-> "idle"]
    /\ inflight = [f \in Flows |-> {}]
    /\ conv = [f \in Flows |-> <<>>]
    /\ request = [f \in Flows |-> <<>>]
    /\ outcome = [f \in Flows |-> Pending]
    /\ sent = [f \in Flows |-> <<>>]
    /\ last_call = [f \in Flows |-> NoCall]
    /\ conv_before = [f \in Flows |-> <<>>]
    /\ cause = [f \in Flows |-> NoError]
    /\ msgno = [f \in Flows |-> 0]
    /\ ncalls = [f \in Flows |-> 0]
    /\ started = 0
    /\ ndirect = 0

BotIdle == BotInit

\* Idle flows whose context variable has no value, or still holds the dict
\* a process() call that raised has left in it.
AdapterInit ==
    /\ ctxvar \in [Flows -> {None, NewContext}]
    /\ token = [f \in Flows |-> None]
    /\ pc = [f \in Flows |-> "idle"]
    /\ inflight = [f \in Flows |-> {}]
    /\ conv = [f \in Flows |-> <<>>]
    /\ request = [f \in Flows |-> <<>>]
    /\ outcome = [f \in Flows |-> Pending]
    /\ sent = [f \in Flows |-> <<>>]
    /\ last_call = [f \in Flows |-> NoCall]
    /\ conv_before = [f \in Flows |-> <<>>]
    /\ cause = [f \in Flows |-> NoError]
    /\ msgno = [f \in Flows |-> 0]
    /\ ncalls = [f \in Flows |-> 0]
    /\ started = 0
    /\ ndirect = 0

ToolIdle ==
    /\ tools = <<>>
    /\ plugin = <<>>
    /\ add_arg = AddTool
    /\ add_error = NoError
    /\ n_add = 0

\* The agent of Spec: constructed with AgentTools, no add_tool afterwards.
AgentInit ==
    /\ tools = AgentTools
    /\ plugin = add_plugin(AgentTools)
    /\ add_arg = AddTool
    /\ add_error = NoError
    /\ n_add = 0

\* A handler that leaves the user turn out of the history until process()
\* has returned.
append_user_turn_deferred(h, user) == h

\* on_message_activity: conversation_data.add_turn(<user turn>) before the
\* call of agent.process; the bot's ConversationData has the default bound.
append_user_turn(h, user) == add_turn(h, DefaultMaxTurns, user)

\* on_message_activity: conversation_data.add_turn(response).
append_response(h, response) == add_turn(h, DefaultMaxTurns, response)

\* on_message_activity up to "await self.agent.process", and process() up to
\* "await self._agent.get_response": the user turn is appended, a new
\* context is set and the history is translated.
Receive(f) ==
    /\ pc[f] = "idle"
    /\ TotalMsgs < MaxMsgs
    /\ \E text \in UserTexts :
        LET user == ConversationTurn("user", text, Now, <<>>, <<>>)
            h == append_user_turn(conv[f], user)
        IN  /\ conv' = [conv EXCEPT ![f] = h]
            /\ request' = [request EXCEPT ![f] = to_chat_history(h)]
    /\ conv_before' = [conv_before EXCEPT ![f] = conv[f]]
    /\ token' = [token EXCEPT ![f] = ctxvar[CtxKey(f)]]
    /\ ctxvar' = [ctxvar EXCEPT ![CtxKey(f)] = enter_context(ctxvar[CtxKey(f)])]
    /\ pc' = [pc EXCEPT ![f] = "completing"]
    /\ outcome' = [outcome EXCEPT ![f] = Pending]
    /\ last_call' = [last_call EXCEPT ![f] = NoCall]
    /\ cause' = [cause EXCEPT ![f] = NoError]
    /\ sent' = [sent EXCEPT ![f] = <<>>]
    /\ msgno' = [msgno EXCEPT ![f] = @ + 1]
    /\ ncalls' = [ncalls EXCEPT ![f] = 0]
    /\ UNCHANGED <<inflight, started, ndirect, histVars, harvVars, toolVars, rendVars>>

\* get_response raised e in flow f: process() has no handler and does not
\* reset the context variable, on_message_activity has none either, and the
\* adapter's on_turn_error reports the error to the user.
HandlerRaises(f, e, lc) ==
    /\ pc' = [pc EXCEPT ![f] = "idle"]
    /\ last_call' = [last_call EXCEPT ![f] = lc]
    /\ outcome' = [outcome EXCEPT ![f] = [kind |-> "raise", error |-> process_raise(e)]]
    /\ cause' = [cause EXCEPT ![f] = e]
    /\ inflight' = [inflight EXCEPT ![f] = {}]
    /\ sent' = [sent EXCEPT ![f] = on_error(process_raise(e))]
    /\ UNCHANGED <<token, conv, request, conv_before, msgno>>

\* The instructions of new_plugin_func after tool.function ended with out,
\* for the invocation inv of the adapter of tool, in flow f; rest are the
\* invocations of the flow that stay suspended.
AdapterEnds(f, tool, inv, call, out, elapsed, rest) ==
    LET end == new_plugin_func(ctxvar[CtxKey(f)], tool, inv, call, out, elapsed)
    IN  IF end.raised # NoError
        THEN /\ HandlerRaises(f, end.raised, end.call)
             /\ ctxvar' = [ctxvar EXCEPT ![CtxKey(f)] = end.ctx]
        ELSE /\ ctxvar' = [ctxvar EXCEPT ![CtxKey(f)] = end.ctx]
             /\ last_call' = [last_call EXCEPT ![f] = end.call]
             /\ inflight' = [inflight EXCEPT ![f] = rest]
             /\ UNCHANGED <<token, pc, conv, request, outcome, sent, conv_before, cause,
                            msgno>>

\* The black-box invokes the adapter of a synchronous tool: new_plugin_func
\* runs from its first to its last line without suspending.
ToolCallSync(f) ==
    /\ pc[f] = "completing"
    /\ started < MaxCalls
    /\ \E inv \in Invocations : \E i \in Adapters(inv.tool) :
        LET tool == plugin[i].tool
        IN  /\ ~iscoroutinefunction(tool.function)
            /\ \E out \in ToolOutcomes(tool.function, inv.kwargs,
                                         <<f, msgno[f], ncalls[f] + 1>>) :
                   AdapterEnds(f, tool, inv, <<f, msgno[f], ncalls[f] + 1>>, out,
                               Elapsed(tool.function), inflight[f])
    /\ ncalls' = [ncalls EXCEPT ![f] = @ + 1]
    /\ started' = started + 1
    /\ UNCHANGED <<ndirect, histVars, harvVars, toolVars, rendVars>>

\* The black-box invokes the adapter of a coroutine tool: new_plugin_func
\* reads start_time and suspends in "await tool.function(...)".
ToolCallStart(f) ==
    /\ pc[f] = "completing"
    /\ started < MaxCalls
    /\ \E inv \in Invocations : \E i \in Adapters(inv.tool) :
        LET tool == plugin[i].tool
        IN  /\ iscoroutinefunction(tool.function)
            /\ inflight' = [inflight EXCEPT ![f] =
                    @ \cup {[call |-> <<f, msgno[f], ncalls[f] + 1>>, tool |-> tool,
                             inv |-> inv, start_time |-> Now]}]
    /\ ncalls' = [ncalls EXCEPT ![f] = @ + 1]
    /\ started' = started + 1
    /\ UNCHANGED <<ctxvar, token, pc, conv, request, outcome, sent, last_call,
                   conv_before, cause, msgno, ndirect, histVars, harvVars, toolVars,
                   rendVars>>

\* A suspended tool call ends and its adapter resumes.
ToolCallResume(f) ==
    /\ pc[f] = "completing"
    /\ \E c \in inflight[f] :
       \E out \in ToolOutcomes(c.tool.function, c.inv.kwargs, c.call) :
        AdapterEnds(f, c.tool, c.inv, c.call, out, Elapsed(c.tool.function),
                    inflight[f] \ {c})
    /\ UNCHANGED <<ncalls, started, ndirect, histVars, harvVars, toolVars, rendVars>>

\* An adapter is invoked directly, outside any process() call of the flow
\* (the kernel's plugin function called by other code of the task); the
\* caller awaits it to its end.
DirectCall(f) ==
    /\ pc[f] = "idle"
    /\ ndirect < MaxDirect
    /\ \E inv \in Invocations : \E i \in Adapters(inv.tool) :
        LET tool == plugin[i].tool
            call == <<f, 0, ndirect + 1>>
        IN  \E out \in ToolOutcomes(tool.function, inv.kwargs, call) :
                LET end == new_plugin_func(ctxvar[CtxKey(f)], tool, inv, call, out,
                                           Elapsed(tool.function))
                IN  /\ ctxvar' = [ctxvar EXCEPT ![CtxKey(f)] = end.ctx]
                    /\ last_call' = [last_call EXCEPT ![f] = end.call]
    /\ ndirect' = ndirect + 1
    /\ UNCHANGED <<token, pc, inflight, conv, request, outcome, sent, conv_before, cause,
                   msgno, ncalls, started, histVars, harvVars, toolVars, rendVars>>

\* get_response returns a reply: process() reads the context, resets the
\* variable and returns the Turn; the bot appends it and sends the card.
Respond(f) ==
    /\ pc[f] = "completing"
    /\ inflight[f] = {}
    /\ IF ctxvar[CtxKey(f)] = None
       THEN \* agent_invoke_context.get() finds no value
            /\ HandlerRaises(f, LookupError, last_call[f])
            /\ UNCHANGED ctxvar
       ELSE /\ \E content \in Replies :
                LET ctx == ctxvar[CtxKey(f)]
                    turn == ConversationTurn("assistant", content, Now,
                                <<[key |-> "tool_usage", value |-> ctx.tool_usage]>>,
                                ctx.attachments)
                    card == get_activity_card(turn)
                IN  /\ outcome' = [outcome EXCEPT ![f] = [kind |-> "return", turn |-> turn]]
                    /\ conv' = [conv EXCEPT ![f] = append_response(@, turn)]
                    /\ sent' = [sent EXCEPT ![f] = IF card.ok THEN <<card.value>>
                                                    ELSE on_error(card.error)]
            /\ ctxvar' = [ctxvar EXCEPT ![CtxKey(f)] = token[f]]
            /\ pc' = [pc EXCEPT ![f] = "idle"]
            /\ UNCHANGED <<token, inflight, request, last_call, conv_before, cause, msgno>>
    /\ UNCHANGED <<ncalls, started, ndirect, histVars, harvVars, toolVars, rendVars>>

\* get_response raises on its own: the service failed, or the call was
\* agent could not be invoked; the tool calls it awaited are abandoned.
CompletionFails(f) ==
    /\ pc[f] = "completing"
    /\ \E e \in CompletionErrors : HandlerRaises(f, e, last_call[f])
    /\ UNCHANGED <<ctxvar, ncalls, started, ndirect, histVars, harvVars, toolVars, rendVars>>

(***************************************************************************)
(* Rendering: the Turn process() builds from what one tool call returned,  *)
(* and get_activity_card applied to it.                                    *)
(***************************************************************************)
\* A chart data value (PieChartData, ...), given by its class and fields.
DataValue(cls, fields) == [t |-> cls, fields |-> fields]

Cit2 == Citation("Hogwarts", "https://harrypotter.fandom.com/wiki/Hogwarts", "", Dict(<<>>))
Media2 == Media("https://example.org/castle.png", "image/png", None)
Line1 == LineChart("c2", "Trend", <<>>)
Pie1 == PieChart("c3", "Share",
                 <<DataValue("PieChartData",
                             <<[key |-> "value", value |-> Scalar(40)],
                               [key |-> "color", value |-> None],
                               [key |-> "legend", value |-> Str("north")]>>)>>)
\* An instance of the base class Chart itself.
BareChart == [t |-> "Chart", id |-> "c4", title |-> "Plain"]

RenderAttachments == {Cit1, Cit2, Media1, Media2, VBar1, Line1, Pie1, BareChart}
KnownCharts == {VBar1, Line1, Pie1}

\* What the tool returned: a list of attachments, or {"chart": <chart>}.
RenderResults ==
    {List(s) : s \in SeqsUpTo(RenderAttachments, MaxAtts)}
    \cup {Dict(<<[key |-> Str("chart"), value |-> c]>>) : c \in KnownCharts}

RendInit ==
    /\ r_result \in RenderResults
    /\ r_turn = None
    /\ r_docs = <<>>
    /\ r_pc = "input"

RendIdle ==
    /\ r_result = None
    /\ r_turn = None
    /\ r_docs = <<>>
    /\ r_pc = "idle"

\* The adapter harvests the tool's result into the context and process()
\* builds the Turn from the context.
BuildTurn ==
    /\ r_pc = "input"
    /\ \E content \in Replies :
        r_turn' = ConversationTurn("assistant", content, Now,
                      <<[key |-> "tool_usage", value |-> <<>>]>>,
                      NewContext.attachments \o extract_attachments(r_result))
    /\ r_pc' = "turn"
    /\ UNCHANGED <<r_result, r_docs, histVars, harvVars, toolVars, botVars>>

\* A renderer that consumes the attachment list it iterates over.
turn_after_render_drained(turn) == [turn EXCEPT !.attachments = <<>>]

\* The Turn after get_activity_card(turn): the function only reads it.
turn_after_render(turn) == turn

\* One call get_activity_card(r_turn).
Render ==
    /\ r_pc = "turn"
    /\ Len(r_docs) < MaxRenders
    /\ r_docs' = Append(r_docs, [before |-> r_turn, out |-> get_activity_card(r_turn),
                                 after |-> turn_after_render(r_turn)])
    /\ r_turn' = turn_after_render(r_turn)
    /\ UNCHANGED <<r_result, r_pc, histVars, harvVars, toolVars, botVars>>

\* process() builds the ChatHistory of the conversation data it was given.
Translate ==
    /\ chat' = [built |-> TRUE, from |-> history, messages |-> to_chat_history(history)]
    /\ UNCHANGED <<max_turns, history, added, harvVars, toolVars, botVars, rendVars>>

NextHistory == AddTurn \/ Translate
NextHarvest == Harvest

NextTools == AddToolCall
NextRender == BuildTurn \/ Render
NextAdapter == \E f \in Flows : DirectCall(f)
Next ==
    \E f \in Flows :
        \/ Receive(f)
        \/ ToolCallSync(f)
        \/ ToolCallStart(f)
        \/ ToolCallResume(f)
        \/ Respond(f)
        \/ CompletionFails(f)

InitHistory == HistInit /\ HarvIdle /\ ToolIdle /\ BotIdle /\ RendIdle
InitHarvest == HistIdle /\ HarvInit /\ ToolIdle /\ BotIdle /\ RendIdle
InitRender == HistIdle /\ HarvIdle /\ ToolIdle /\ BotIdle /\ RendInit
InitAdapter == HistIdle /\ HarvIdle /\ AgentInit /\ AdapterInit /\ RendIdle
InitTools == HistIdle /\ HarvIdle /\ ToolInit /\ BotIdle /\ RendIdle
Init == HistIdle /\ HarvIdle /\ AgentInit /\ BotInit /\ RendIdle

SpecHistory == InitHistory /\ [][NextHistory]_vars
SpecHarvest == InitHarvest /\ [][NextHarvest]_vars
SpecTools == InitTools /\ [][NextTools]_vars
SpecRender == InitRender /\ [][NextRender]_vars
SpecAdapter == InitAdapter /\ [][NextAdapter]_vars
Spec == Init /\ [][Next]_vars

(***************************************************************************)
(* Claims.                                                                 *)
(***************************************************************************)

\* C2: starting from an empty history, after any sequence of add_turn calls
\* the length of the history never exceeds max_turns, for every positive
\* max_turns.
C2_HistoryBound == Len(history) <= max_turns

\* C2 witness: more turns were added than max_turns and turns were evicted.
C2_Witness ==
    /\ max_turns >= 2
    /\ Len(added) >= max_turns + 2
    /\ Len(history) < Len(added)
    /\ Len(history) >= 1

\* C3: with max_turns = 3 and an initially empty history, add_turn of
\* T1, T2, T3, T4, T5 in that order leaves the history equal to [T3, T4, T5].
C3_ScenarioLastThree ==
    (max_turns = 3 /\ Len(added) = 5) => history = SubSeq(added, 3, 5)

\* The children of a value that _collect descends into.
Children(v) ==
    IF v.t \in {"list", "tuple", "set"} THEN v.items
    ELSE IF v.t = "dict" THEN [i \in DOMAIN v.items |-> v.items[i].value]
    ELSE <<>>

\* The node of v at a path of at most two child indices.
NodeAt(v, p) ==
    IF p = <<>> THEN v
    ELSE IF Len(p) = 1 THEN Children(v)[p[1]]
    ELSE Children(Children(v)[p[1]])[p[2]]

\* The paths of v, to depth two.
PathsOf(v) ==
    {<<>>} \cup {<<i>> : i \in DOMAIN Children(v)}
    \cup UNION {{<<i, j>> : j \in DOMAIN Children(Children(v)[i])} : i \in DOMAIN Children(v)}

\* The occurrences of attachments in v.
AttachmentPaths(v) == {p \in PathsOf(v) : NodeAt(v, p).t \in {"Citation", "Media"} \cup ChartTypes}

\* p comes before q in pre-order (neither is a prefix of the other).
PathBefore(p, q) ==
    \E k \in 1..2 :
        /\ k <= Len(p) /\ k <= Len(q)
        /\ \A m \in 1..(k - 1) : p[m] = q[m]
        /\ p[k] < q[k]

PreOrderRank(v, p) == 1 + Cardinality({q \in AttachmentPaths(v) : PathBefore(q, p)})

\* C4: for every acyclic value built from lists, tuples, sets and dicts that
\* contains N occurrences of attachments, extract_attachments returns exactly
\* N entries, in pre-order, ignoring dict keys and scalars, without
\* deduplication.
C4_HarvestPreOrder ==
    h_pc = "done" =>
        /\ Len(h_attachments) = Cardinality(AttachmentPaths(h_result))
        /\ \A p \in AttachmentPaths(h_result) :
               h_attachments[PreOrderRank(h_result, p)] = NodeAt(h_result, p)

\* C4 witness: a nested result holding the same citation twice, at two depths,
\* besides another attachment, a scalar and a dict, has been harvested.
C4_Witness ==
    /\ h_pc = "done"
    /\ h_result.t = "list"
    /\ Len(h_result.items) = 2
    /\ h_result.items[1].t = "dict"
    /\ Len(h_result.items[1].items) = 2
    /\ h_result.items[1].items[1].value = Cit1
    /\ h_result.items[1].items[2].value = VBar1
    /\ h_result.items[2] = Tuple(<<Scalar(5), Cit1>>)
    /\ h_attachments = <<Cit1, VBar1, Cit1>>

\* The Turn the last process() call of flow f returned, and its tool-usage log.
Returned(f) == outcome[f].kind = "return"
ToolUsage(turn) == turn.metadata[1].value
Last(s) == s[Len(s)]

\* C1: when two process() calls run concurrently, the Turn each returns holds
\* in metadata.tool_usage and in attachments only the records and attachments
\* of the tool invocations made on its own execution path.
C1_ContextIsolation ==
    \A f \in Flows :
        Returned(f) =>
            LET turn == outcome[f].turn
            IN  /\ \A i \in DOMAIN ToolUsage(turn) :
                       /\ ToolUsage(turn)[i].call[1] = f
                       /\ ToolUsage(turn)[i].call[2] = msgno[f]
                /\ \A j \in DOMAIN turn.attachments :
                       /\ turn.attachments[j].id[2][1] = f
                       /\ turn.attachments[j].id[2][2] = msgno[f]

\* C1 witness: f1's call returned a Turn with a record and a chart of its own
\* while f2's call, with a record of its own and a tool call suspended, is
\* still awaiting the black-box.
C1_Witness ==
    /\ Returned("f1")
    /\ Len(ToolUsage(outcome["f1"].turn)) = 1
    /\ Len(outcome["f1"].turn.attachments) = 1
    /\ pc["f2"] = "completing"
    /\ ctxvar["f2"] # None
    /\ Len(ctxvar["f2"].tool_usage) = 1
    /\ inflight["f2"] # {}

\* C5: a successful process() call returns a Turn with role assistant whose
\* metadata.tool_usage holds exactly one record per tool invocation made
\* during that call (one record with tool_name Add and result 5 for Add(2,3))
\* and no record of an earlier or other call.
C5_TurnAssembly ==
    \A f \in Flows :
        Returned(f) =>
            LET turn == outcome[f].turn
                usage == ToolUsage(turn)
            IN  /\ turn.role = "assistant"
                /\ Len(usage) = ncalls[f]
                /\ {usage[i].call : i \in DOMAIN usage}
                       = {<<f, msgno[f], k>> : k \in 1..ncalls[f]}
                /\ \A i \in DOMAIN usage :
                       usage[i].tool_name = "Add" =>
                           /\ usage[i].kwargs = [x |-> 2, y |-> 3]
                           /\ usage[i].result = Scalar(5)

\* C5 witness: the second process() call of a flow, after a first call that
\* recorded invocations and failed, returned a Turn with exactly one record,
\* for Add(2,3) with result 5.
C5_Witness ==
    /\ msgno["f1"] = 2
    /\ Returned("f1")
    /\ token["f1"] # None
    /\ token["f1"].tool_usage # <<>>
    /\ Len(ToolUsage(outcome["f1"].turn)) = 1
    /\ ToolUsage(outcome["f1"].turn)[1].tool_name = "Add"
    /\ ToolUsage(outcome["f1"].turn)[1].result = Scalar(5)

\* C6: every successful invocation of an adapter inside an active context
\* returns to its caller exactly the value the tool callable returned, and the
\* record it appends carries that value as result, with the tool's name and
\* the args and kwargs of the call.
C6_AdapterTransparency ==
    \A f \in Flows :
        (pc[f] = "completing" /\ last_call[f].kind = "returned") =>
            LET record == Last(ctxvar[CtxKey(f)].tool_usage)
            IN  /\ last_call[f].returned = last_call[f].value
                /\ record.call = last_call[f].call
                /\ record.result = last_call[f].value
                /\ record.tool_name = last_call[f].tool.name
                /\ record.args = last_call[f].inv.args
                /\ record.kwargs = last_call[f].inv.kwargs

\* C6 witness: the adapter of the coroutine tool returned the dict holding a
\* chart, after the adapter of Add had returned.
C6_Witness ==
    /\ pc["f1"] = "completing"
    /\ last_call["f1"].kind = "returned"
    /\ last_call["f1"].tool.name = "FetchChart"
    /\ last_call["f1"].returned.t = "dict"
    /\ Len(ctxvar["f1"].tool_usage) = 2

\* C7: on every exit path of process(), normal return or failure, the context
\* the call established is deactivated: after process() exits, the active
\* context of the calling flow is what it was before the call.
C7_ScopedCleanup ==
    \A f \in Flows :
        (pc[f] = "idle" /\ outcome[f].kind \in {"return", "raise"}) =>
            ctxvar[CtxKey(f)] = token[f]

C9_HistoryUnchangedOnFailure ==
    \A f \in Flows : outcome[f].kind = "raise" => conv[f] = conv_before[f]

Count(atts, types) == Cardinality({i \in DOMAIN atts : atts[i].t \in types})
Rendered(d) == d.out.ok
Body(d) == IF d.out.value.attachments = <<>> THEN <<>>
           ELSE d.out.value.attachments[1].body
\* The elements of the section with the given title, <<>> without one.
SectionItems(d, title) ==
    IF \E k \in DOMAIN Body(d) : Body(d)[k].title = title
    THEN Body(d)[CHOOSE k \in DOMAIN Body(d) : Body(d)[k].title = title].content.items
    ELSE <<>>
OfTypes(atts, types) == SelectSeq(atts, LAMBDA a : a.t \in types)

C12_RenderSections ==
    \A i \in DOMAIN r_docs :
        Rendered(r_docs[i]) =>
            LET d == r_docs[i]
                atts == d.before.attachments
                nc == Count(atts, {"Citation"})
                nm == Count(atts, {"Media"})
                nch == Count(atts, ChartTypes)
                titles == (IF nc > 0 THEN <<"Citations">> ELSE <<>>)
                          \o (IF nm > 0 THEN <<"Media Attachments">> ELSE <<>>)
                          \o (IF nch > 0 THEN <<"Charts">> ELSE <<>>)
            IN  /\ d.out.value.text = d.before.content
                /\ (nc + nm + nch = 0) <=> (d.out.value.attachments = <<>>)
                /\ Len(d.out.value.attachments) <= 1
                /\ [k \in DOMAIN Body(d) |-> Body(d)[k].title] = titles
                /\ \A k \in DOMAIN Body(d) : ~Body(d)[k].content.isVisible
                /\ Len(SectionItems(d, "Citations")) = nc
                /\ Len(SectionItems(d, "Media Attachments")) = nm
                /\ Len(SectionItems(d, "Charts")) = nch

\* C12 witness: a Turn with a citation and two charts but no media was
\* rendered into a card of two sections.
C12_Witness ==
    /\ Len(r_docs) >= 1
    /\ Rendered(r_docs[1])
    /\ Len(Body(r_docs[1])) = 2
    /\ Len(SectionItems(r_docs[1], "Citations")) = 1
    /\ Len(SectionItems(r_docs[1], "Charts")) = 2

\* C13: every Citation, Media and Chart attachment of the turn has its
\* element in the one section of its variant, and the elements of a section
\* follow the order their attachments have in turn.attachments.
C13_RenderPartition ==
    \A i \in DOMAIN r_docs :
        Rendered(r_docs[i]) =>
            LET d == r_docs[i]
                atts == d.before.attachments
                cits == OfTypes(atts, {"Citation"})
                meds == OfTypes(atts, {"Media"})
                chs == OfTypes(atts, ChartTypes)
                celems == SectionItems(d, "Citations")
                melems == SectionItems(d, "Media Attachments")
                chelems == SectionItems(d, "Charts")
            IN  /\ Len(celems) + Len(melems) + Len(chelems) = Len(atts)
                /\ [k \in DOMAIN celems |-> <<celems[k].items[1].text[2],
                                              celems[k].items[1].text[4]>>]
                       = [k \in DOMAIN cits |-> <<cits[k].title, cits[k].url>>]
                /\ [k \in DOMAIN melems |-> melems[k].sources[1].url]
                       = [k \in DOMAIN meds |-> meds[k].content]
                /\ [k \in DOMAIN chelems |-> chelems[k].id]
                       = [k \in DOMAIN chs |-> chs[k].id]

\* C13 witness: two different citations with a media attachment between
\* them were rendered.
C13_Witness ==
    /\ Len(r_docs) >= 1
    /\ Rendered(r_docs[1])
    /\ r_docs[1].before.attachments = <<Cit1, Media1, Cit2>>

\* C14: rendering a turn that holds a Chart of none of the three known
\* classes raises the unsupported-chart error (the code's ValueError
\* "Unsupported chart type") and yields no document.
C14_UnsupportedChart ==
    \A i \in DOMAIN r_docs :
        (\E k \in DOMAIN r_docs[i].before.attachments :
             r_docs[i].before.attachments[k].t = "Chart")
        => /\ ~r_docs[i].out.ok
           /\ r_docs[i].out.error = ValueError("Unsupported chart type")

\* C14 witness: a turn with a citation, a bar chart and then a plain Chart
\* was rendered.
C14_Witness ==
    /\ Len(r_docs) >= 1
    /\ r_docs[1].before.attachments = <<Cit1, VBar1, BareChart>>
    /\ ~r_docs[1].out.ok

\* The discriminator the card gives each known chart class.
Discriminator(cls) ==
    IF cls = "VerticalBarChart" THEN "Chart.VerticalBar"
    ELSE IF cls = "LineChart" THEN "Chart.Line"
    ELSE "Chart.Pie"

\* C15: when the tool returned {"chart": c} for a chart c of a known class,
\* the turn's attachments are exactly <<c>> and the document has the single
\* section "Charts" whose one element carries c's id (c1 for the bar chart)
\* and the discriminator of c's class, a different one for each class.
C15_ChartScenario ==
    \A i \in DOMAIN r_docs :
        \A c \in KnownCharts :
            r_result = Dict(<<[key |-> Str("chart"), value |-> c]>>) =>
                LET d == r_docs[i]
                IN  /\ d.before.attachments = <<c>>
                    /\ Rendered(d)
                    /\ Len(Body(d)) = 1
                    /\ Body(d)[1].title = "Charts"
                    /\ Len(SectionItems(d, "Charts")) = 1
                    /\ SectionItems(d, "Charts")[1].id = c.id
                    /\ SectionItems(d, "Charts")[1].type = Discriminator(c.t)

\* C15 witness: {"chart": VerticalBarChart(id="c1", title="Sales")} was
\* harvested and rendered into an element with id c1.
C15_Witness ==
    /\ r_result = Dict(<<[key |-> Str("chart"), value |-> VBar1]>>)
    /\ Len(r_docs) >= 1
    /\ Rendered(r_docs[1])
    /\ SectionItems(r_docs[1], "Charts")[1].id = "c1"
    /\ SectionItems(r_docs[1], "Charts")[1].type = "Chart.VerticalBar"

C17_MissingContext ==
    [][\A f \in Flows :
           (/\ last_call'[f] # last_call[f]
            /\ last_call'[f].kind # "none"
            /\ last_call'[f].ctx_before = None
            /\ last_call'[f].out.ok)
           => /\ last_call'[f].kind = "raised"
              /\ last_call'[f].raised = LookupError
              /\ ctxvar' = ctxvar]_vars

\* C17 witness: Add(x=2, y=3) was invoked in f1 without a context and its
\* adapter raised LookupError, while f2 holds a context.
C17_Witness ==
    /\ last_call["f1"].kind = "raised"
    /\ last_call["f1"].tool.name = "Add"
    /\ last_call["f1"].ctx_before = None
    /\ last_call["f1"].raised = LookupError
    /\ ctxvar["f2"] # None

\* C18: the adapter _build_func builds for a tool has exactly the parameter
\* signature of the tool's callable: the same parameter names in the same
\* number and order, with the same annotations.
C18_SignaturePreserved ==
    \A i \in DOMAIN plugin :
        /\ plugin[i].signature = Signature(plugin[i].tool.function)
        /\ plugin[i].signature # DeclaredSignature

\* C18 witness: an agent constructed with Add and VerticalBarChart has an
\* adapter whose signature is (title: str, data: list[...]).
C18_Witness ==
    /\ Len(plugin) = 2
    /\ plugin[1].tool = AddTool
    /\ plugin[2].tool = VerticalBarChartTool
    /\ Len(plugin[2].signature.params) = 2
    /\ plugin[2].signature.params[1] = Param("title", "str")

\* ---- The transport boundary (Spec) ----
\* C19: what the user is sent when handling a message failed does not depend
\* on the exception's text: two failed messages are answered with the same
\* activities.
C19_NoLeak ==
    \A f, g \in Flows :
        (outcome[f].kind = "raise" /\ outcome[g].kind = "raise") => sent[f] = sent[g]

\* ---- History translation (SpecHistory) ----
\* The messages a history gives when the system turns at the indices in
\* omitted are left out and every other turn keeps its role.
Translation(h, omitted) ==
    LET kept == SelectSeq([i \in DOMAIN h |-> i], LAMBDA i : i \notin omitted)
    IN  [k \in DOMAIN kept |-> [role |-> h[kept[k]].role, content |-> h[kept[k]].content]]

\* C20: the ChatHistory process() builds has the history's turns in order,
\* user turns as user messages and assistant turns as assistant messages;
\* a system turn is passed on as a system message or left out, never sent
\* under another role.
C20_HistoryTranslation ==
    chat.built =>
        \E omitted \in SUBSET {i \in DOMAIN chat.from : chat.from[i].role = "system"} :
            chat.messages = Translation(chat.from, omitted)

\* ---- The message handler (Spec) ----
\* The reply card was sent for the flow's last message.
Replied(f) ==
    /\ Returned(f)
    /\ get_activity_card(outcome[f].turn).ok
    /\ sent[f] = <<get_activity_card(outcome[f].turn).value>>

\* C21: while agent.process() runs for a message, the history already ends
\* with that message's user turn; once the reply has been sent, the history
\* is the one from before the message followed by exactly the user turn and
\* then the assistant turn process() returned (no eviction at these lengths),
\* and no reply is sent before that.
C21_HandlingOrder ==
    \A f \in Flows :
        /\ pc[f] = "completing" =>
               /\ Len(conv[f]) = Len(conv_before[f]) + 1
               /\ SubSeq(conv[f], 1, Len(conv_before[f])) = conv_before[f]
               /\ Last(conv[f]).role = "user"
               /\ sent[f] = <<>>
        /\ Returned(f) =>
               /\ Len(conv[f]) = Len(conv_before[f]) + 2
               /\ SubSeq(conv[f], 1, Len(conv_before[f])) = conv_before[f]
               /\ conv[f][Len(conv[f]) - 1].role = "user"
               /\ Last(conv[f]) = outcome[f].turn
        /\ (sent[f] # <<>> /\ outcome[f].kind # "raise") => Replied(f)

\* C21 witness: f1's second message was answered; its history holds the two
\* turns of the first message and the two of the second.
C21_Witness ==
    /\ msgno["f1"] = 2
    /\ Replied("f1")
    /\ Len(conv_before["f1"]) = 2
    /\ Len(conv["f1"]) = 4

C23_StrictFifo ==
    \E k \in 0..Len(added) : history = SubSeq(added, k + 1, Len(added))

\* C23 witness: with max_turns = 4 six turns were added, three were evicted
\* and the three newest are kept in order.
C23_Witness ==
    /\ max_turns = 4
    /\ Len(added) = 6
    /\ Len(history) = 3
    /\ history[1].created_at = 4
    /\ history[3].created_at = 6

\* C30: for every positive max_turns, after add_turn(t) the turn t is the
\* last element of the history.
C30_NewestSurvives ==
    Len(added) >= 1 => (history # <<>> /\ Last(history) = Last(added))

\* ---- Tool-usage records (Spec) ----
\* C24: the duration of every Tool-Usage Record is the elapsed time
\* end_time - start_time of its tool call in microseconds, and is not
\* negative, calls of a second or more included.
C24_Duration ==
    \A f \in Flows :
        ctxvar[f] # None =>
            \A i \in DOMAIN ctxvar[f].tool_usage :
                /\ ctxvar[f].tool_usage[i].duration = ctxvar[f].tool_usage[i].elapsed
                /\ ctxvar[f].tool_usage[i].duration >= 0

\* ---- The tool set (SpecTools) ----
\* C25: no two tools of the agent's tool set have the same name, whatever
\* keys the constructor's dict used and whatever add_tool calls followed.
C25_UniqueNames ==
    \A i, j \in DOMAIN tools : i # j => tools[i].value.name # tools[j].value.name

\* C27: every tool of the agent's tool set has an instrumented adapter
\* registered with the kernel, the tools added with add_tool included.
C27_EveryToolObserved ==
    \A i \in DOMAIN tools : \E j \in DOMAIN plugin : plugin[j].tool = tools[i].value

\* ---- The invocation context (Spec) ----
\* The invocations of f's current process() call that have ended.
Completed(f) ==
    {<<f, msgno[f], k>> : k \in 1..ncalls[f]} \ {c.call : c \in inflight[f]}
RecordFields ==
    {"tool_name", "args", "kwargs", "result", "start_time", "duration", "call", "elapsed"}

RECURSIVE Harvested(_)
\* The attachments of the results of a log's records, record after record.
Harvested(usage) ==
    IF usage = <<>> THEN <<>>
    ELSE extract_attachments(Head(usage).result) \o Harvested(Tail(usage))

\* C26: while the tool invocations of one process() call run interleaved,
\* the tool_usage log of that call's context holds exactly one complete
\* record for each invocation that has completed: none lost, none twice,
\* none partial.
C26_AtomicAppends ==
    \A f \in Flows :
        pc[f] = "completing" =>
            LET usage == ctxvar[f].tool_usage
            IN  /\ Len(usage) = Cardinality(Completed(f))
                /\ {usage[i].call : i \in DOMAIN usage} = Completed(f)
                /\ \A i \in DOMAIN usage :
                       /\ DOMAIN usage[i] = RecordFields
                       /\ usage[i].tool_name \in {"Add", "FetchChart"}
                       /\ usage[i].tool_name = "FetchChart" => usage[i].result.t = "dict"

\* C26 witness: in f1 three invocations were started; the second and the
\* third ran concurrently with the first still suspended, and the third
\* completed before the second.
C26_Witness ==
    /\ pc["f1"] = "completing"
    /\ ncalls["f1"] = 3
    /\ Cardinality(inflight["f1"]) = 1
    /\ Len(ctxvar["f1"].tool_usage) = 2
    /\ ctxvar["f1"].tool_usage[1].call[3] = 3
    /\ ctxvar["f1"].tool_usage[2].call[3] = 2

\* C28: the attachments of the context, and of the Turn process() returns,
\* are the attachments harvested from the results of the tool_usage records,
\* record after record in the order of the log, each as often as it occurred.
C28_AttachmentAggregation ==
    \A f \in Flows :
        /\ pc[f] = "completing" =>
               ctxvar[f].attachments = Harvested(ctxvar[f].tool_usage)
        /\ Returned(f) =>
               outcome[f].turn.attachments = Harvested(ToolUsage(outcome[f].turn))

\* C28 witness: f1's call returned a Turn with three records, two of them
\* of FetchChart calls that completed in the reverse of their start order,
\* and with the two charts in the order of the records.
C28_Witness ==
    /\ Returned("f1")
    /\ Len(ToolUsage(outcome["f1"].turn)) = 3
    /\ Len(outcome["f1"].turn.attachments) = 2
    /\ outcome["f1"].turn.attachments[1].id[2][3] > outcome["f1"].turn.attachments[2].id[2][3]

\* C29: an adapter invocation whose tool callable raised leaves every
\* context as it was: no record and no attachment is appended.
C29_FailureLeavesContext ==
    [][\A f \in Flows :
           (/\ last_call'[f] # last_call[f]
            /\ last_call'[f].kind = "raised"
            /\ ~last_call'[f].out.ok)
           => /\ ctxvar' = ctxvar
              /\ ctxvar'[f] = last_call'[f].ctx_before]_vars

\* C29 witness: FetchChart raised TimeoutError in f1 after an Add call had
\* been recorded; the context still holds that one record.
C29_Witness ==
    /\ last_call["f1"].kind = "raised"
    /\ last_call["f1"].out = Raises(Exception("TimeoutError"))
    /\ ctxvar["f1"] # None
    /\ Len(ctxvar["f1"].tool_usage) = 1
    /\ ctxvar["f1"].tool_usage[1].tool_name = "Add"

====
